---- MODULE Spec2Model ----
(***************************************************************************)
(* ScholarMatch: the matching core of src/utils/matcher.py.                *)
(*                                                                         *)
(* calculate_match_score (the Scorer) is a pure function of a profile and  *)
(* a scholarship; match_scholarships (the Matcher) runs it over a catalog, *)
(* drops hard failures and scores under the threshold, tags urgency and    *)
(* sorts.  SpecScore applies the Scorer to every pair of a bounded set of  *)
(* profiles and scholarships; Spec runs the Matcher over bounded catalogs. *)
(* SpecPipeline repeats the run and hands its result to                    *)
(* get_scholarship_statistics and filter_scholarships; SpecStats and       *)
(* SpecFilter apply those two to bounded lists of matches; SpecDeadline    *)
(* runs update_scholarship_deadlines of src/database.py.  SpecDiagnose     *)
(* runs get_hard_filter_failures after a match; SpecLoad loads the catalog *)
(* from its file before matching; SpecSave and SpecInterleave run          *)
(* save_user_profile for several sessions, in turn and concurrently.       *)
(***************************************************************************)
EXTENDS Integers, Sequences, FiniteSets, TLC

VARIABLES
    user_profile,         \* the profile handed to the core
    scholarship,          \* the scholarship handed to calculate_match_score
    score_result,         \* what calculate_match_score returned
    scholarships,         \* the catalog handed to match_scholarships
    min_match_threshold,  \* the threshold handed to match_scholarships
    matches,              \* what match_scholarships returned, or the list
                          \* handed to the statistics and the filter
    runs,                 \* how often match_scholarships has run
    statistics,           \* what get_scholarship_statistics returned
    criteria,             \* the criteria handed to filter_scholarships
    filtered,             \* what filter_scholarships returned
    refiltered,           \* the same filter applied to its own result
    utcnow,               \* the clock read by calculate_deadline_days
    failures,             \* what get_hard_filter_failures returned
    scholarships_file,    \* data/scholarships.json
    load_status,          \* how load_scholarships ended
    users_file,           \* data/users.json
    session,              \* the save_user_profile calls: position and locals
    saved,                \* the calls that returned True, in that order
    pc                    \* the call position

vars == <<user_profile, scholarship, score_result,
          scholarships, min_match_threshold, matches, runs,
          statistics, criteria, filtered, refiltered, utcnow,
          failures, scholarships_file, load_status, users_file, session, saved, pc>>

storeVars   == <<scholarships_file, load_status, users_file, session, saved>>
scorerVars  == <<scholarship, score_result>>
matcherVars == <<scholarships, min_match_threshold, matches, runs>>
listVars    == <<statistics, criteria, filtered, refiltered>>

(***************************************************************************)
(* Python floats.  match_percentage = int((score / max_score) * 100) is    *)
(* computed in IEEE-754 binary64: the quotient is rounded to 53            *)
(* significant bits (nearest, ties to even), so is the product, and int()  *)
(* truncates.  A float is [sig, exp] with value M * 2^exp, where M is the  *)
(* 53-bit significand held as the digits <<1, d1, d2, d3, d4>> of          *)
(* 2^52 + d1*2^39 + d2*2^26 + d3*2^13 + d4 (the leading bit, then four     *)
(* 13-bit digits); zero is the empty significand.                          *)
(***************************************************************************)
DIGIT_BITS == 13
DIGITS     == 4

Pow2(n) == IF n <= 0 THEN 1 ELSE 2 ^ n

Base == Pow2(DIGIT_BITS)

RECURSIVE BitLen(_)
BitLen(n) == IF n <= 0 THEN 0 ELSE 1 + BitLen(n \div 2)

\* the digits as an integer (used only where it fits the machine integer)
RECURSIVE DigitsToNat(_)
DigitsToNat(ds) ==
    IF ds = <<>> THEN 0
    ELSE Base * DigitsToNat(SubSeq(ds, 1, Len(ds) - 1)) + ds[Len(ds)]

\* ds * c + carry, the carry out left in the leading digit
RECURSIVE MulDigits(_, _, _)
MulDigits(ds, c, carry) ==
    IF Len(ds) = 1 THEN <<ds[1] * c + carry>>
    ELSE LET v == ds[Len(ds)] * c + carry
         IN  Append(MulDigits(SubSeq(ds, 1, Len(ds) - 1), c, v \div Base), v % Base)

\* ds shifted right by k < DIGIT_BITS bits (the leading digit holds the top)
ShiftRight(ds, k) ==
    [i \in 1..Len(ds) |->
        (ds[i] \div Pow2(k))
        + (IF i = 1 THEN 0 ELSE (ds[i - 1] % Pow2(k)) * Pow2(DIGIT_BITS - k))]

\* a significand plus one unit in the last place, renormalised
RoundUp(ds, exp) ==
    LET inc == MulDigits(ds, 1, 1)
    IN  IF inc[1] >= 2
        THEN [sig |-> ShiftRight(inc, 1), exp |-> exp + 1]
        ELSE [sig |-> inc, exp |-> exp]

\* n quotient digits of r / b (r < b), then the remainder
RECURSIVE DivDigits(_, _, _)
DivDigits(r, b, n) ==
    IF n = 0 THEN [digits |-> <<>>, rem |-> r]
    ELSE LET d == DivDigits((r * Base) % b, b, n - 1)
         IN  [digits |-> <<(r * Base) \div b>> \o d.digits, rem |-> d.rem]

\* the shifts that bring a / b into [1, 2): a * 2^up / (b * 2^down)
RECURSIVE ShiftUp(_, _)
ShiftUp(a, b) == IF a <= 0 \/ a >= b THEN 0 ELSE 1 + ShiftUp(2 * a, b)

RECURSIVE ShiftDown(_, _)
ShiftDown(a, b) == IF b <= 0 \/ a < 2 * b THEN 0 ELSE 1 + ShiftDown(a, 2 * b)

\* a / b for small integers a >= 0, b > 0: Python's true division of two ints
FloatDiv(a, b) ==
    IF a = 0 THEN [sig |-> <<>>, exp |-> 0]
    ELSE LET up   == ShiftUp(a, b)
             down == ShiftDown(a, b)
             a1   == a * Pow2(up)
             b1   == b * Pow2(down)
             d    == DivDigits(a1 - b1, b1, DIGITS)
             sig  == <<1>> \o d.digits
             exp  == down - up - DIGITS * DIGIT_BITS
             up1  == 2 * d.rem > b1 \/ (2 * d.rem = b1 /\ sig[DIGITS + 1] % 2 = 1)
         IN  IF up1 THEN RoundUp(sig, exp) ELSE [sig |-> sig, exp |-> exp]

\* x * c for a float x and a small positive integer c
FloatMul(x, c) ==
    IF x.sig = <<>> THEN x
    ELSE LET prod    == MulDigits(x.sig, c, 0)
             k       == BitLen(prod[1]) - 1
             dropped == prod[DIGITS + 1] % Pow2(k)
             sig     == ShiftRight(prod, k)
             exp     == x.exp + k
             half    == Pow2(k - 1)
             up      == k > 0 /\ (dropped > half
                                  \/ (dropped = half /\ sig[DIGITS + 1] % 2 = 1))
         IN  IF up THEN RoundUp(sig, exp) ELSE [sig |-> sig, exp |-> exp]

\* int(x): truncation toward zero of a float 0 <= x < 2^27
FloatToInt(x) ==
    IF x.sig = <<>> \/ 0 - x.exp > DIGITS * DIGIT_BITS THEN 0
    ELSE LET n == 0 - x.exp
             q == n \div DIGIT_BITS
             r == n % DIGIT_BITS
         IN  DigitsToNat(SubSeq(x.sig, 1, DIGITS + 1 - q)) \div Pow2(r)

(***************************************************************************)
(* The data.  A profile's gpa and a scholarship's min_gpa are in tenths    *)
(* (the form's slider moves in steps of 0.1); a field a scholarship does   *)
(* not carry holds the default its .get() gives.  A reason is [mark, text]:*)
(* the mark is the tag the string starts with, the text its fixed part.    *)
(***************************************************************************)
INTERESTS == <<"STEM Clubs", "Community Service", "Sports", "Arts/Music",
               "Student Government", "Entrepreneurship", "Writing", "Debate">>

NumInterests == 4

FirstInterests(n) == {INTERESTS[i] : i \in 1..n}

Profiles ==
    [gpa                   : {32, 35, 37},
     grade_level           : {"High School Senior", "College Sophomore"},
     major                 : {"STEM", "Business"},
     state                 : {"California", "Texas"},
     ethnicity             : {{}, {"Asian American"}},
     gender                : {"Female", "Prefer not to say"},
     interests             : {{}, FirstInterests(2), FirstInterests(NumInterests)},
     special_circumstances : {{}, {"First Generation College Student"}}]

Scholarships ==
    [min_gpa               : {0, 35},
     majors                : {{}, {"STEM"}, {"Any"}},
     grade_levels          : {{}, {"High School Senior"}},
     states                : {{}, {"California", "New York"}, {"All"}},
     demographics          : {{}, {"Female"},
                              {"Female", "Asian American", "Prefer not to say"}},
     interests             : {FirstInterests(n) : n \in 0..NumInterests},
     special_circumstances : {{}, {"First Generation College Student"}}]

HardFail(text) == [mark |-> "HARD FAIL", text |-> text]
Match(text)    == [mark |-> "match", text |-> text]
SoftMiss(text) == [mark |-> "soft miss", text |-> text]

(***************************************************************************)
(* calculate_match_score: the three hard filters                           *)
(***************************************************************************)
\* mutant: the comparison turned round
GpaHardFilterFails_Inverted(profile, s) ==
    s.min_gpa > 0 /\ profile.gpa > s.min_gpa

GpaHardFilterFails(profile, s) ==
    s.min_gpa > 0 /\ profile.gpa < s.min_gpa

\* mutant: the "not" of "not in" dropped
GradeHardFilterFails_In(profile, s) ==
    s.grade_levels # {} /\ profile.grade_level \in s.grade_levels

GradeHardFilterFails(profile, s) ==
    s.grade_levels # {} /\ profile.grade_level \notin s.grade_levels

\* mutant: the "All" sentinel not looked at
StateHardFilterFails_NoSentinel(profile, s) ==
    s.states # {} /\ profile.state \notin s.states

StateHardFilterFails(profile, s) ==
    /\ s.states # {}
    /\ "All" \notin s.states
    /\ profile.state \notin s.states

(***************************************************************************)
(* calculate_match_score: the seven weighted factors.  Each gives what it  *)
(* adds to score and to max_score, and the reasons it appends.             *)
(***************************************************************************)
GpaMatch(profile, s) ==
    IF profile.gpa >= s.min_gpa
    THEN [score |-> 20, max_score |-> 20,
          reasons |-> IF s.min_gpa > 0
                      THEN <<Match("Meets GPA requirement")>>
                      ELSE <<Match("No GPA requirement")>>]
    ELSE [score |-> 0, max_score |-> 20, reasons |-> <<>>]

MajorMatch(profile, s) ==
    IF s.majors = {} \/ "Any" \in s.majors \/ profile.major \in s.majors
    THEN [score |-> 25, max_score |-> 25,
          reasons |-> IF s.majors # {} /\ profile.major \in s.majors
                      THEN <<Match("Perfect major match")>>
                      ELSE IF s.majors = {} \/ "Any" \in s.majors
                      THEN <<Match("Open to all majors")>>
                      ELSE <<>>]
    ELSE [score |-> 0, max_score |-> 25,
          reasons |-> <<SoftMiss("Major preference")>>]

GradeLevelMatch(profile, s) ==
    IF s.grade_levels = {} \/ profile.grade_level \in s.grade_levels
    THEN [score |-> 20, max_score |-> 20,
          reasons |-> <<Match("Grade level eligible")>>]
    ELSE [score |-> 0, max_score |-> 20, reasons |-> <<>>]

\* mutant: the "All" sentinel earns no points
StateMatch_SentinelUnscored(profile, s) ==
    IF s.states = {} \/ profile.state \in s.states
    THEN [score |-> 10, max_score |-> 10,
          reasons |-> <<Match("Available nationwide")>>]
    ELSE [score |-> 0, max_score |-> 10, reasons |-> <<>>]

StateMatch(profile, s) ==
    IF s.states = {} \/ "All" \in s.states \/ profile.state \in s.states
    THEN [score |-> 10, max_score |-> 10,
          reasons |-> IF /\ s.states # {}
                         /\ profile.state \in s.states
                         /\ "All" \notin s.states
                      THEN <<Match("State match")>>
                      ELSE <<Match("Available nationwide")>>]
    ELSE [score |-> 0, max_score |-> 10, reasons |-> <<>>]

\* mutant: any demographic match gives the whole weight
DemographicsMatch_AnyIsFull(profile, s) ==
    IF s.demographics = {}
    THEN [score |-> 5, max_score |-> 10,
          reasons |-> <<Match("No demographic restrictions")>>]
    ELSE IF \/ profile.ethnicity \cap s.demographics # {}
            \/ (profile.gender \in s.demographics
                /\ profile.gender # "Prefer not to say")
         THEN [score |-> 10, max_score |-> 10,
               reasons |-> <<Match("Demographics match")>>]
         ELSE [score |-> 0, max_score |-> 10,
               reasons |-> <<SoftMiss("Demographic preference")>>]

DemographicsMatch(profile, s) ==
    IF s.demographics = {}
    THEN [score |-> 5, max_score |-> 10,
          reasons |-> <<Match("No demographic restrictions")>>]
    ELSE LET ethnicity_match == profile.ethnicity \cap s.demographics # {}
             gender_match    == /\ profile.gender \in s.demographics
                                /\ profile.gender # "Prefer not to say"
         IN  [score |-> (IF ethnicity_match THEN 5 ELSE 0)
                        + (IF gender_match THEN 5 ELSE 0),
              max_score |-> 10,
              reasons |->
                  (IF ethnicity_match THEN <<Match("Demographics match")>> ELSE <<>>)
                  \o (IF gender_match THEN <<Match("Gender match")>> ELSE <<>>)
                  \o (IF ~ethnicity_match /\ ~gender_match
                      THEN <<SoftMiss("Demographic preference")>> ELSE <<>>)]

Min(a, b) == IF a <= b THEN a ELSE b

InterestsMatch(profile, s) ==
    IF s.interests # {}
    THEN LET matching_interests == profile.interests \cap s.interests
         IN  IF matching_interests # {}
             THEN [score |-> Min(10, Cardinality(matching_interests) * 3),
                   max_score |-> 10,
                   reasons |-> <<Match("Interests")>>]
             ELSE [score |-> 0, max_score |-> 10,
                   reasons |-> <<SoftMiss("Preferred interests")>>]
    ELSE [score |-> 5, max_score |-> 10,
          reasons |-> <<Match("No interest requirements")>>]

\* mutant: max_score += 5 moved into the branch that has requirements
SpecialCircumstancesMatch_MaxInBranch(profile, s) ==
    IF s.special_circumstances # {}
    THEN IF profile.special_circumstances \cap s.special_circumstances # {}
         THEN [score |-> 5, max_score |-> 5, reasons |-> <<Match("Special")>>]
         ELSE [score |-> 0, max_score |-> 5,
               reasons |-> <<SoftMiss("Preference for")>>]
    ELSE [score |-> 2, max_score |-> 0, reasons |-> <<>>]

SpecialCircumstancesMatch(profile, s) ==
    IF s.special_circumstances # {}
    THEN IF profile.special_circumstances \cap s.special_circumstances # {}
         THEN [score |-> 5, max_score |-> 5, reasons |-> <<Match("Special")>>]
         ELSE [score |-> 0, max_score |-> 5,
               reasons |-> <<SoftMiss("Preference for")>>]
    ELSE [score |-> 2, max_score |-> 5, reasons |-> <<>>]

\* the most max_score can be: the seven weights
TotalWeight == 20 + 25 + 20 + 10 + 10 + 10 + 5

\* int((score / max_score) * 100), tabulated once for the values in range
PercentageTable ==
    [max_score \in 1..TotalWeight |->
        [score \in 0..TotalWeight |->
            FloatToInt(FloatMul(FloatDiv(score, max_score), 100))]]

\* int((score / max_score) * 100) if max_score > 0 else 0
match_percentage(score, max_score) ==
    IF max_score > 0 THEN PercentageTable[max_score][score] ELSE 0

\* the factors in the order the code runs them
Factors(profile, s) ==
    <<GpaMatch(profile, s), MajorMatch(profile, s), GradeLevelMatch(profile, s),
      StateMatch(profile, s), DemographicsMatch(profile, s),
      InterestsMatch(profile, s), SpecialCircumstancesMatch(profile, s)>>

RECURSIVE SumScore(_)
SumScore(fs) ==
    IF fs = <<>> THEN 0 ELSE fs[1].score + SumScore(Tail(fs))

RECURSIVE SumMaxScore(_)
SumMaxScore(fs) ==
    IF fs = <<>> THEN 0 ELSE fs[1].max_score + SumMaxScore(Tail(fs))

RECURSIVE AllReasons(_)
AllReasons(fs) ==
    IF fs = <<>> THEN <<>> ELSE fs[1].reasons \o AllReasons(Tail(fs))

WeightedScore(profile, s) ==
    LET fs == Factors(profile, s)
    IN  [score   |-> match_percentage(SumScore(fs), SumMaxScore(fs)),
         reasons |-> AllReasons(fs)]

\* mutant: the grade-level filter run before the GPA filter
calculate_match_score_GradeFirst(profile, s) ==
    IF GradeHardFilterFails(profile, s)
    THEN [score |-> 0, reasons |-> <<HardFail("Grade level not eligible")>>]
    ELSE IF GpaHardFilterFails(profile, s)
    THEN [score |-> 0, reasons |-> <<HardFail("GPA requirement not met")>>]
    ELSE IF StateHardFilterFails(profile, s)
    THEN [score |-> 0, reasons |-> <<HardFail("Location not eligible")>>]
    ELSE WeightedScore(profile, s)

calculate_match_score(profile, s) ==
    IF GpaHardFilterFails(profile, s)
    THEN [score |-> 0, reasons |-> <<HardFail("GPA requirement not met")>>]
    ELSE IF GradeHardFilterFails(profile, s)
    THEN [score |-> 0, reasons |-> <<HardFail("Grade level not eligible")>>]
    ELSE IF StateHardFilterFails(profile, s)
    THEN [score |-> 0, reasons |-> <<HardFail("Location not eligible")>>]
    ELSE WeightedScore(profile, s)

(***************************************************************************)
(* SpecScore: the Scorer applied to one (profile, scholarship) pair        *)
(***************************************************************************)
NoResult == [score |-> 0, reasons |-> <<>>]

\* an optional argument: None, or a value
None    == [given |-> FALSE]
Some(v) == [given |-> TRUE, value |-> v]

NoCriteria ==
    [category |-> None, min_amount |-> None,
     max_amount |-> None, deadline_range |-> None]

\* the statistics of no matches
EmptyStatistics ==
    [total_matches         |-> 0,
     total_potential_value |-> 0,
     average_match_score   |-> 0,
     urgent_deadlines      |-> 0,
     categories            |-> [c \in {} |-> 0]]

\* a clock reading: the day (counted from 2026-01-01) and the second of it
Clock(day, second) == [day |-> day, second |-> second]

\* a file that does not exist, a file that holds the JSON text of a value,
\* a file whose text is no JSON, and a file that cannot be opened or read
MissingFile    == [state |-> "missing"]
JsonFile(data) == [state |-> "json", data |-> data]
NotJsonFile    == [state |-> "not json"]
UnreadableFile == [state |-> "unreadable"]

\* no file loaded or written, no save_user_profile called
StoreIdle ==
    /\ scholarships_file = MissingFile
    /\ load_status = "not loaded"
    /\ users_file = MissingFile
    /\ session = <<>>
    /\ saved = <<>>

\* nothing summarised or filtered yet, the clock not read
ListIdle ==
    /\ statistics = None
    /\ criteria = NoCriteria
    /\ filtered = <<>>
    /\ refiltered = <<>>
    /\ utcnow = Clock(0, 0)

InitScore ==
    /\ user_profile \in Profiles
    /\ scholarship \in Scholarships
    /\ score_result = NoResult
    /\ scholarships = <<>>
    /\ min_match_threshold = 40
    /\ matches = <<>>
    /\ runs = 0
    /\ ListIdle
    /\ failures = <<>>
    /\ StoreIdle
    /\ pc = "start"

CalculateMatchScore ==
    /\ pc = "start"
    /\ score_result' = calculate_match_score(user_profile, scholarship)
    /\ pc' = "scored"
    /\ UNCHANGED <<user_profile, scholarship, matcherVars, listVars, utcnow, failures, storeVars>>

NextScore == CalculateMatchScore

SpecScore == InitScore /\ [][NextScore]_vars

(***************************************************************************)
(* match_scholarships.  A catalog record carries, besides the fields the   *)
(* Scorer reads, its name, amount and deadline_days.  amount is a number,  *)
(* a string ("Varies") or absent; deadline_days is a number or absent.     *)
(***************************************************************************)
Amount(n)    == [present |-> TRUE, numeric |-> TRUE, value |-> n]
AmountVaries == [present |-> TRUE, numeric |-> FALSE, value |-> 0]
NoAmount     == [present |-> FALSE, numeric |-> FALSE, value |-> 0]

Days(n) == [present |-> TRUE, value |-> n]
NoDays  == [present |-> FALSE, value |-> 0]

\* x.get('deadline_days', 999)
deadline_days_of(x) ==
    IF x.deadline_days.present THEN x.deadline_days.value ELSE 999

\* isinstance(x.get('amount'), (int, float))
amount_is_numeric(x) == x.amount.present /\ x.amount.numeric

\* mutant: > instead of >=
MeetsThreshold_Strict(match_score, threshold) == match_score > threshold

MeetsThreshold(match_score, threshold) == match_score >= threshold

\* match_score == 0 and any('HARD FAIL' in reason for reason in match_reasons)
IsHardFailure(result) ==
    /\ result.score = 0
    /\ \E i \in 1..Len(result.reasons) : result.reasons[i].mark = "HARD FAIL"

\* mutant: <= at the breakpoints
Urgency_Inclusive(s) ==
    LET deadline_days == deadline_days_of(s)
    IN  IF deadline_days <= 7 THEN "critical"
        ELSE IF deadline_days <= 30 THEN "high"
        ELSE IF deadline_days <= 90 THEN "medium"
        ELSE "low"

Urgency(s) ==
    LET deadline_days == deadline_days_of(s)
    IN  IF deadline_days < 7 THEN "critical"
        ELSE IF deadline_days < 30 THEN "high"
        ELSE IF deadline_days < 90 THEN "medium"
        ELSE "low"

\* scholarship.copy() with match_score, match_reasons and urgency set
ScholarshipCopy(s, result) ==
    [match_score   |-> result.score,
     match_reasons |-> result.reasons,
     urgency       |-> Urgency(s)] @@ s

\* mutant: no copy, the annotations are written to the catalog's own record
CatalogRecordAfter_Annotated(s, annotated) == annotated

\* scholarship.copy(): the annotations go to a new dict, and the catalog's
\* record is what it was
CatalogRecordAfter(s, annotated) == s

\* the catalog as the for loop leaves it
CatalogAfterRun(profile, catalog, threshold) ==
    [i \in 1..Len(catalog) |->
        LET s      == catalog[i]
            result == calculate_match_score(profile, s)
        IN  IF ~IsHardFailure(result) /\ MeetsThreshold(result.score, threshold)
            THEN CatalogRecordAfter(s, ScholarshipCopy(s, result))
            ELSE s]

\* the for loop over the catalog: the matches and the hard failures
RECURSIVE CollectMatches(_, _, _)
CollectMatches(profile, catalog, threshold) ==
    IF catalog = <<>> THEN [matches |-> <<>>, hard_failures |-> <<>>]
    ELSE LET s      == Head(catalog)
             result == calculate_match_score(profile, s)
             rest   == CollectMatches(profile, Tail(catalog), threshold)
         IN  IF IsHardFailure(result)
             THEN [matches |-> rest.matches,
                   hard_failures |->
                       <<[name |-> s.name, reason |-> result.reasons[1]]>>
                       \o rest.hard_failures]
             ELSE IF MeetsThreshold(result.score, threshold)
             THEN [matches |-> <<ScholarshipCopy(s, result)>> \o rest.matches,
                   hard_failures |-> rest.hard_failures]
             ELSE rest

\* mutant: the amount not negated, so smaller amounts sort first
SortKey_AmountAscending(x) ==
    <<0 - x.match_score,
      IF amount_is_numeric(x) THEN x.amount.value ELSE 0,
      deadline_days_of(x)>>

\* the key of matches.sort
SortKey(x) ==
    <<0 - x.match_score,
      IF amount_is_numeric(x) THEN 0 - x.amount.value ELSE 0,
      deadline_days_of(x)>>

\* Python's < on two key tuples
KeyLess(k1, k2) ==
    \/ k1[1] < k2[1]
    \/ (k1[1] = k2[1] /\ k1[2] < k2[2])
    \/ (k1[1] = k2[1] /\ k1[2] = k2[2] /\ k1[3] < k2[3])

\* mutant: an unstable sort, x goes before the entries with an equal key
GoesBefore_EqualKeysToo(x, y) == ~KeyLess(SortKey(y), SortKey(x))

\* list.sort is stable: x, met later in the list, goes before y only when
\* its key is smaller
GoesBefore(x, y) == KeyLess(SortKey(x), SortKey(y))

\* x goes after every entry whose key is not greater
RECURSIVE InsertByKey(_, _)
InsertByKey(sorted, x) ==
    IF sorted = <<>> THEN <<x>>
    ELSE IF GoesBefore(x, Head(sorted))
         THEN <<x>> \o sorted
         ELSE <<Head(sorted)>> \o InsertByKey(Tail(sorted), x)

RECURSIVE SortMatches(_)
SortMatches(ms) ==
    IF ms = <<>> THEN <<>>
    ELSE InsertByKey(SortMatches(SubSeq(ms, 1, Len(ms) - 1)), ms[Len(ms)])

match_scholarships(profile, catalog, threshold) ==
    SortMatches(CollectMatches(profile, catalog, threshold).matches)

(***************************************************************************)
(* get_scholarship_statistics and filter_scholarships.  They take a list   *)
(* of matches; an entry's category is a string, or the entry has none.     *)
(***************************************************************************)
\* x.get('match_score', 0)
match_score_of(x) == IF "match_score" \in DOMAIN x THEN x.match_score ELSE 0

\* x.get('category', default)
category_of(x, default) == IF "category" \in DOMAIN x THEN x.category ELSE default

RECURSIVE SumSeq(_)
SumSeq(ns) == IF ns = <<>> THEN 0 ELSE Head(ns) + SumSeq(Tail(ns))

\* seq[:n]
Take(seq, n) == SubSeq(seq, 1, Min(n, Len(seq)))

\* [s.get('amount', 0) for s in matches if isinstance(s.get('amount'), (int, float))]
NumericAmounts(ms) ==
    LET numeric == SelectSeq(ms, amount_is_numeric)
    IN  [i \in 1..Len(numeric) |-> numeric[i].amount.value]

\* the slice of "Top 10 scholarships"
TOP_N == 10

\* sum(amounts[:10])
TotalValue(ms) == SumSeq(Take(NumericAmounts(ms), TOP_N))

\* int(sum([...match_score...]) / len(matches)), the quotient a float
AverageScore(ms) ==
    FloatToInt(FloatDiv(SumSeq([i \in 1..Len(ms) |-> match_score_of(ms[i])]),
                        Len(ms)))

\* mutant: a deadline 30 days away counted urgent
IsUrgent_Inclusive(s) == deadline_days_of(s) <= 30

\* s.get('deadline_days', 999) < 30
IsUrgent(s) == deadline_days_of(s) < 30

UrgentCount(ms) == Len(SelectSeq(ms, IsUrgent))

\* the dict built by the loop over the matches
Categories(ms) ==
    [c \in {category_of(ms[i], "General") : i \in 1..Len(ms)} |->
        Cardinality({i \in 1..Len(ms) : category_of(ms[i], "General") = c})]

\* the statistics of a list that is not empty
Summary(ms) ==
    [total_matches         |-> Len(ms),
     total_potential_value |-> TotalValue(ms),
     average_match_score   |-> AverageScore(ms),
     urgent_deadlines      |-> UrgentCount(ms),
     categories            |-> Categories(ms)]

\* an exception that leaves the function
Raised(exception) == [raised |-> exception]

\* mutant: no test for the empty list, the average divides by len(matches) = 0
get_scholarship_statistics_NoEmptyTest(ms) ==
    IF ms = <<>> THEN Raised("ZeroDivisionError") ELSE Summary(ms)

get_scholarship_statistics(ms) ==
    IF ms = <<>> THEN EmptyStatistics ELSE Summary(ms)

\* Python's truth value of an optional string argument
Truthy(arg) == arg.given /\ arg.value # ""

\* mutant: the copy without its first entry
ListCopy_FromSecond(ms) == IF ms = <<>> THEN ms ELSE Tail(ms)

\* matches.copy()
ListCopy(ms) == ms

\* mutant: if min_amount: instead of if min_amount is not None:
MinAmountGiven_Truthy(min_amount) == min_amount.given /\ min_amount.value # 0

\* min_amount is not None
MinAmountGiven(min_amount) == min_amount.given

\* mutant: an unknown range keeps every deadline
DeadlineLimit_UnknownUnbounded(deadline_range) ==
    CASE deadline_range = "week"    -> 7
      [] deadline_range = "month"   -> 30
      [] deadline_range = "quarter" -> 90
      [] deadline_range = "year"    -> 365
      [] OTHER                      -> 999

\* deadline_limits.get(deadline_range, 365)
DeadlineLimit(deadline_range) ==
    CASE deadline_range = "week"    -> 7
      [] deadline_range = "month"   -> 30
      [] deadline_range = "quarter" -> 90
      [] deadline_range = "year"    -> 365
      [] OTHER                      -> 365

filter_scholarships(ms, category, min_amount, max_amount, deadline_range) ==
    LET InCategory(s)  == category_of(s, "") = category.value
        AtLeast(s)     == amount_is_numeric(s) /\ s.amount.value >= min_amount.value
        AtMost(s)      == amount_is_numeric(s) /\ s.amount.value <= max_amount.value
        InWindow(s)    == deadline_days_of(s) <= DeadlineLimit(deadline_range.value)
        copied         == ListCopy(ms)
        by_category    == IF Truthy(category)
                          THEN SelectSeq(copied, InCategory) ELSE copied
        by_min_amount  == IF MinAmountGiven(min_amount)
                          THEN SelectSeq(by_category, AtLeast) ELSE by_category
        by_max_amount  == IF max_amount.given
                          THEN SelectSeq(by_min_amount, AtMost) ELSE by_min_amount
    IN  IF Truthy(deadline_range)
        THEN SelectSeq(by_max_amount, InWindow) ELSE by_max_amount

\* filter_scholarships with the criteria as one record
Filter(ms, c) ==
    filter_scholarships(ms, c.category, c.min_amount, c.max_amount, c.deadline_range)

(***************************************************************************)
(* Spec: match_scholarships run over a catalog of up to MaxCatalog         *)
(* scholarships drawn from a pool                                          *)
(***************************************************************************)
MaxCatalog == 3

OpenScholarship ==
    [min_gpa               |-> 0,
     majors                |-> {},
     grade_levels          |-> {},
     states                |-> {},
     demographics          |-> {},
     interests             |-> {},
     special_circumstances |-> {}]

StemScholarship ==
    [min_gpa               |-> 35,
     majors                |-> {"STEM"},
     grade_levels          |-> {"High School Senior"},
     states                |-> {"California", "New York"},
     demographics          |-> {"Female"},
     interests             |-> {"STEM Clubs"},
     special_circumstances |-> {"First Generation College Student"}]

TexasScholarship ==
    [min_gpa               |-> 0,
     majors                |-> {"STEM"},
     grade_levels          |-> {},
     states                |-> {"Texas"},
     demographics          |-> {},
     interests             |-> {"STEM Clubs"},
     special_circumstances |-> {}]

Requirements ==
    {[name |-> "Open Scholarship"] @@ OpenScholarship,
     [name |-> "Test STEM Scholarship"] @@ StemScholarship,
     [name |-> "Texas STEM Scholarship"] @@ TexasScholarship}

Offers ==
    {[amount |-> Amount(1000),  deadline_days |-> Days(5)],
     [amount |-> Amount(5000),  deadline_days |-> Days(5)],
     [amount |-> AmountVaries,  deadline_days |-> Days(5)],
     [amount |-> NoAmount,      deadline_days |-> Days(5)],
     [amount |-> NoAmount,      deadline_days |-> NoDays]}

CatalogPool == {o @@ r : o \in Offers, r \in Requirements}

Catalogs == UNION {[1..n -> CatalogPool] : n \in 0..MaxCatalog}

MatchProfiles ==
    {[gpa                   |-> 37,
      grade_level           |-> "High School Senior",
      major                 |-> "STEM",
      state                 |-> "California",
      ethnicity             |-> {"Asian American"},
      gender                |-> "Female",
      interests             |-> {"STEM Clubs", "Community Service"},
      special_circumstances |-> {"First Generation College Student"}],
     [gpa                   |-> 32,
      grade_level           |-> "High School Senior",
      major                 |-> "Business",
      state                 |-> "Texas",
      ethnicity             |-> {},
      gender                |-> "Prefer not to say",
      interests             |-> {},
      special_circumstances |-> {}]}

DEFAULT_THRESHOLD == 40

Thresholds == {0, DEFAULT_THRESHOLD, 88}

Init ==
    /\ user_profile \in MatchProfiles
    /\ scholarships \in Catalogs
    /\ min_match_threshold \in Thresholds
    /\ matches = <<>>
    /\ runs = 0
    /\ scholarship = OpenScholarship
    /\ score_result = NoResult
    /\ ListIdle
    /\ failures = <<>>
    /\ StoreIdle
    /\ pc = "start"

MatchScholarships ==
    /\ pc \in {"start", "loaded"}
    /\ matches' = match_scholarships(user_profile, scholarships, min_match_threshold)
    /\ scholarships' = CatalogAfterRun(user_profile, scholarships, min_match_threshold)
    /\ runs' = runs + 1
    /\ pc' = "matched"
    /\ UNCHANGED <<user_profile, scorerVars, min_match_threshold, listVars, utcnow, failures, storeVars>>

Next == MatchScholarships

Spec == Init /\ [][Next]_vars

(***************************************************************************)
(* SpecDiagnose: match_scholarships with threshold 0 and then              *)
(* get_hard_filter_failures, over the same profile and catalog             *)
(***************************************************************************)
MaxDiagnoseCatalog == 2

\* the entry get_hard_filter_failures appends for a failed scholarship
FailureEntry(s, result) ==
    [scholarship    |-> s.name,
     amount         |-> IF s.amount.present THEN s.amount ELSE AmountVaries,
     category       |-> category_of(s, "General"),
     failure_reason |-> result.reasons[1]]

\* mutant: failures = [...] in place of failures.append(...), only the last
\* failure is left
RECURSIVE get_hard_filter_failures_LastOnly(_, _)
get_hard_filter_failures_LastOnly(profile, catalog) ==
    IF catalog = <<>> THEN <<>>
    ELSE LET s      == catalog[Len(catalog)]
             result == calculate_match_score(profile, s)
         IN  IF IsHardFailure(result) THEN <<FailureEntry(s, result)>>
             ELSE get_hard_filter_failures_LastOnly(
                      profile, SubSeq(catalog, 1, Len(catalog) - 1))

RECURSIVE get_hard_filter_failures(_, _)
get_hard_filter_failures(profile, catalog) ==
    IF catalog = <<>> THEN <<>>
    ELSE LET s      == Head(catalog)
             result == calculate_match_score(profile, s)
             rest   == get_hard_filter_failures(profile, Tail(catalog))
         IN  IF IsHardFailure(result)
             THEN <<FailureEntry(s, result)>> \o rest
             ELSE rest

DiagnoseCatalogs == UNION {[1..n -> CatalogPool] : n \in 0..MaxDiagnoseCatalog}

InitDiagnose ==
    /\ user_profile \in MatchProfiles
    /\ scholarships \in DiagnoseCatalogs
    /\ min_match_threshold = 0
    /\ matches = <<>>
    /\ runs = 0
    /\ scholarship = OpenScholarship
    /\ score_result = NoResult
    /\ ListIdle
    /\ failures = <<>>
    /\ StoreIdle
    /\ pc = "start"

GetHardFilterFailures ==
    /\ pc = "matched"
    /\ failures' = get_hard_filter_failures(user_profile, scholarships)
    /\ pc' = "diagnosed"
    /\ UNCHANGED <<user_profile, scorerVars, matcherVars, listVars, utcnow, storeVars>>

NextDiagnose == MatchScholarships \/ GetHardFilterFailures

SpecDiagnose == InitDiagnose /\ [][NextDiagnose]_vars

(***************************************************************************)
(* SpecPipeline: the Matcher run, and run again, over a catalog whose      *)
(* deadlines lie on both sides of every urgency breakpoint, its result     *)
(* summarised or filtered                                                  *)
(***************************************************************************)
MaxPipelineCatalog == 2
MaxRuns == 2

DeadlineOffers ==
    {[amount |-> Amount(1000), deadline_days |-> Days(d)] :
        d \in {6, 7, 29, 30, 89, 90}}
    \cup {[amount |-> Amount(1000), deadline_days |-> NoDays]}

PipelineRequirements ==
    {[name |-> "Open Scholarship"] @@ OpenScholarship,
     [name |-> "Texas STEM Scholarship", category |-> "STEM"] @@ TexasScholarship}

PipelinePool == {o @@ r : o \in DeadlineOffers, r \in PipelineRequirements}

PipelineCatalogs == UNION {[1..n -> PipelinePool] : n \in 0..MaxPipelineCatalog}

DeadlineRange(name) ==
    [category |-> None, min_amount |-> None,
     max_amount |-> None, deadline_range |-> Some(name)]

PipelineCriteria ==
    {NoCriteria, DeadlineRange("week"), DeadlineRange("month"), DeadlineRange("quarter")}

InitPipeline ==
    /\ user_profile \in MatchProfiles
    /\ scholarships \in PipelineCatalogs
    /\ min_match_threshold = DEFAULT_THRESHOLD
    /\ matches = <<>>
    /\ runs = 0
    /\ scholarship = OpenScholarship
    /\ score_result = NoResult
    /\ statistics = None
    /\ criteria \in PipelineCriteria
    /\ filtered = <<>>
    /\ refiltered = <<>>
    /\ utcnow = Clock(0, 0)
    /\ failures = <<>>
    /\ StoreIdle
    /\ pc = "start"

\* match_scholarships called once more with the same profile and catalog
MatchAgain ==
    /\ pc = "matched"
    /\ runs >= 1
    /\ runs < MaxRuns
    /\ matches' = match_scholarships(user_profile, scholarships, min_match_threshold)
    /\ scholarships' = CatalogAfterRun(user_profile, scholarships, min_match_threshold)
    /\ runs' = runs + 1
    /\ UNCHANGED <<user_profile, scorerVars, min_match_threshold, listVars, utcnow, failures, storeVars, pc>>

GetScholarshipStatistics ==
    /\ pc = "matched"
    /\ statistics' = get_scholarship_statistics(matches)
    /\ pc' = "summarized"
    /\ UNCHANGED <<user_profile, scorerVars, matcherVars,
                   criteria, filtered, refiltered, utcnow, failures, storeVars>>

FilterScholarships ==
    /\ pc \in {"matched", "summarized"}
    /\ filtered' = Filter(matches, criteria)
    /\ pc' = "filtered"
    /\ UNCHANGED <<user_profile, scorerVars, matcherVars,
                   statistics, criteria, refiltered, utcnow, failures, storeVars>>

\* filter_scholarships called on its own result with the same criteria
FilterAgain ==
    /\ pc = "filtered"
    /\ refiltered' = Filter(filtered, criteria)
    /\ pc' = "refiltered"
    /\ UNCHANGED <<user_profile, scorerVars, matcherVars,
                   statistics, criteria, filtered, utcnow, failures, storeVars>>

NextPipeline ==
    \/ MatchScholarships
    \/ MatchAgain
    \/ GetScholarshipStatistics
    \/ FilterScholarships

SpecPipeline == InitPipeline /\ [][NextPipeline]_vars

(***************************************************************************)
(* SpecStats: get_scholarship_statistics applied to a list of matches.     *)
(* Lists of up to MaxRichList entries are drawn from a pool that varies    *)
(* score, amount, deadline and category; longer lists, up to MaxMatches    *)
(* entries, from two entries, one with a numeric amount and one without.   *)
(***************************************************************************)
MaxMatches == 11
MaxRichList == 3

VariesMatch ==
    [name |-> "Open Scholarship", match_score |-> 88, amount |-> AmountVaries,
     deadline_days |-> Days(29), category |-> "STEM"]

NumericMatch ==
    [name |-> "Test STEM Scholarship", match_score |-> 87, amount |-> Amount(1000),
     deadline_days |-> Days(30)]

StatsPool ==
    {VariesMatch,
     NumericMatch,
     [name |-> "Arts Award", match_score |-> 57, amount |-> Amount(5000),
      deadline_days |-> NoDays, category |-> "Arts"],
     [name |-> "Texas STEM Scholarship", match_score |-> 40, amount |-> NoAmount,
      deadline_days |-> Days(5), category |-> "STEM"]}

MatchLists ==
    UNION {[1..n -> IF n <= MaxRichList THEN StatsPool
                    ELSE {VariesMatch, NumericMatch}] : n \in 0..MaxMatches}

InitStats ==
    /\ user_profile \in {p \in MatchProfiles : p.gpa = 37}
    /\ scholarships = <<>>
    /\ min_match_threshold = DEFAULT_THRESHOLD
    /\ matches \in MatchLists
    /\ runs = 0
    /\ scholarship = OpenScholarship
    /\ score_result = NoResult
    /\ ListIdle
    /\ failures = <<>>
    /\ StoreIdle
    /\ pc = "matched"

NextStats == GetScholarshipStatistics

SpecStats == InitStats /\ [][NextStats]_vars

(***************************************************************************)
(* SpecFilter: filter_scholarships applied to a list of up to              *)
(* MaxFilterList matches, and then to its own result.  The pool has a      *)
(* deadline on each side of every window, each kind of amount and entries  *)
(* with and without category.                                              *)
(***************************************************************************)
MaxFilterList == 3

FilterEntry(name, amount, deadline_days) ==
    [name |-> name, match_score |-> 87, amount |-> amount,
     deadline_days |-> deadline_days]

FilterPool ==
    {[category |-> "STEM"] @@ FilterEntry("A", Amount(1000), Days(7)),
     [category |-> "STEM"] @@ FilterEntry("B", Amount(2000), Days(8)),
     [category |-> "Arts"] @@ FilterEntry("C", Amount(5000), Days(30)),
     FilterEntry("D", AmountVaries, Days(31)),
     [category |-> "STEM"] @@ FilterEntry("E", NoAmount, Days(90)),
     [category |-> "Arts"] @@ FilterEntry("F", Amount(1000), Days(91)),
     [category |-> "STEM"] @@ FilterEntry("G", Amount(5000), Days(365)),
     FilterEntry("H", Amount(2000), Days(366)),
     [category |-> "Arts"] @@ FilterEntry("I", Amount(2000), NoDays)}

FilterLists == UNION {[1..n -> FilterPool] : n \in 0..MaxFilterList}

AllCriteria ==
    [category       : {None, Some("STEM"), Some("")},
     min_amount     : {None, Some(0), Some(2000)},
     max_amount     : {None, Some(2000)},
     deadline_range : {None, Some("week"), Some("month"), Some("quarter"),
                       Some("year"), Some("decade"), Some("")}]

InitFilter ==
    /\ user_profile \in {p \in MatchProfiles : p.gpa = 37}
    /\ scholarships = <<>>
    /\ min_match_threshold = DEFAULT_THRESHOLD
    /\ matches \in FilterLists
    /\ runs = 0
    /\ scholarship = OpenScholarship
    /\ score_result = NoResult
    /\ statistics = None
    /\ criteria \in AllCriteria
    /\ filtered = <<>>
    /\ refiltered = <<>>
    /\ utcnow = Clock(0, 0)
    /\ failures = <<>>
    /\ StoreIdle
    /\ pc = "matched"

NextFilter == FilterScholarships \/ FilterAgain

SpecFilter == InitFilter /\ [][NextFilter]_vars

(***************************************************************************)
(* calculate_deadline_days and update_scholarship_deadlines                *)
(* (src/database.py).  A deadline string of the form digits-digits-digits  *)
(* is held as its three numbers, any other string as its text; a date is   *)
(* the number of days since the first day of EPOCH_YEAR.                   *)
(***************************************************************************)
EPOCH_YEAR == 2026
SECONDS_PER_DAY == 86400

DateText(y, m, d) == [form |-> "Y-m-d", year |-> y, month |-> m, day |-> d]
OtherText(text)   == [form |-> "other", text |-> text]

IsLeap(y) == (y % 4 = 0 /\ y % 100 # 0) \/ y % 400 = 0

DaysInMonth(y, m) ==
    IF m = 2 THEN (IF IsLeap(y) THEN 29 ELSE 28)
    ELSE IF m \in {4, 6, 9, 11} THEN 30 ELSE 31

RECURSIVE DaysBeforeMonth(_, _)
DaysBeforeMonth(y, m) ==
    IF m <= 1 THEN 0 ELSE DaysBeforeMonth(y, m - 1) + DaysInMonth(y, m - 1)

DaysInYear(y) == IF IsLeap(y) THEN 366 ELSE 365

\* the days from the first day of EPOCH_YEAR to the first day of year y
RECURSIVE DaysBeforeYear(_)
DaysBeforeYear(y) ==
    IF y = EPOCH_YEAR THEN 0
    ELSE IF y > EPOCH_YEAR THEN DaysBeforeYear(y - 1) + DaysInYear(y - 1)
    ELSE DaysBeforeYear(y + 1) - DaysInYear(y)

\* datetime.strptime(deadline_str, "%Y-%m-%d"): midnight of the date, or a
\* ValueError for a string of another form or a date that does not exist
Strptime(deadline_str) ==
    IF /\ deadline_str.form = "Y-m-d"
       /\ deadline_str.year \in 1..9999
       /\ deadline_str.month \in 1..12
       /\ deadline_str.day \in 1..DaysInMonth(deadline_str.year, deadline_str.month)
    THEN Clock(DaysBeforeYear(deadline_str.year)
                   + DaysBeforeMonth(deadline_str.year, deadline_str.month)
                   + deadline_str.day - 1,
               0)
    ELSE Raised("ValueError")

\* a - b for two datetimes: a timedelta, normalised to 0 <= seconds < 86400
TimeDelta(a, b) ==
    LET seconds == a.second - b.second
    IN  [days    |-> (a.day - b.day) + (seconds \div SECONDS_PER_DAY),
         seconds |-> seconds % SECONDS_PER_DAY]

Max(a, b) == IF a >= b THEN a ELSE b

calculate_deadline_days(deadline_str, now) ==
    LET deadline == Strptime(deadline_str)
        today    == now
    IN  IF "raised" \in DOMAIN deadline THEN 999
        ELSE LET delta == TimeDelta(deadline, today)
             IN  Max(0, delta.days)

update_scholarship_deadlines(catalog, now) ==
    [i \in 1..Len(catalog) |->
        IF "deadline" \in DOMAIN catalog[i]
        THEN [catalog[i] EXCEPT
                 !.deadline_days = Days(calculate_deadline_days(catalog[i].deadline, now))]
        ELSE catalog[i]]

(***************************************************************************)
(* SpecDeadline: update_scholarship_deadlines run over a catalog of up to  *)
(* MaxDeadlineCatalog records at some time of some day.  The clock is read *)
(* once for the run.                                                       *)
(***************************************************************************)
MaxDeadlineCatalog == 2

\* 2026-03-10 at midnight, one second later and one second before the next
\* day; the last second of 2026
Clocks ==
    {Clock(68, 0), Clock(68, 1), Clock(68, SECONDS_PER_DAY - 1),
     Clock(364, SECONDS_PER_DAY - 1)}

Deadlines ==
    {DateText(2025, 12, 31), DateText(2026, 3, 9), DateText(2026, 3, 10), DateText(2026, 3, 11),
     DateText(2026, 3, 12), DateText(2027, 1, 1), DateText(2028, 2, 29),
     DateText(2026, 2, 29), DateText(2026, 13, 1), OtherText("rolling")}

DeadlinePool ==
    {[name |-> "Dated", deadline |-> d, deadline_days |-> NoDays] : d \in Deadlines}
    \cup {[name |-> "Dated", deadline |-> DateText(2026, 3, 11), deadline_days |-> Days(45)],
          [name |-> "Undated", deadline_days |-> NoDays],
          [name |-> "Undated", deadline_days |-> Days(45)]}

DeadlineCatalogs == UNION {[1..n -> DeadlinePool] : n \in 0..MaxDeadlineCatalog}

InitDeadline ==
    /\ user_profile \in {p \in MatchProfiles : p.gpa = 37}
    /\ scholarships \in DeadlineCatalogs
    /\ min_match_threshold = DEFAULT_THRESHOLD
    /\ matches = <<>>
    /\ runs = 0
    /\ scholarship = OpenScholarship
    /\ score_result = NoResult
    /\ statistics = None
    /\ criteria = NoCriteria
    /\ filtered = <<>>
    /\ refiltered = <<>>
    /\ utcnow \in Clocks
    /\ failures = <<>>
    /\ StoreIdle
    /\ pc = "start"

UpdateScholarshipDeadlines ==
    /\ pc = "start"
    /\ scholarships' = update_scholarship_deadlines(scholarships, utcnow)
    /\ pc' = "updated"
    /\ UNCHANGED <<user_profile, scorerVars, min_match_threshold, matches, runs,
                   listVars, utcnow, failures, storeVars>>

NextDeadline == UpdateScholarshipDeadlines

SpecDeadline == InitDeadline /\ [][NextDeadline]_vars

(***************************************************************************)
(* load_scholarships (src/database.py) and the app's load_scholarship_data *)
(***************************************************************************)
\* the three scholarships of generate_sample_scholarships, with the fields
\* the core reads; the deadlines are 2025-11-04 plus 45, 26 and 88 days
generate_sample_scholarships ==
    <<[name |-> "STEM Excellence Scholarship", amount |-> Amount(5000),
       deadline |-> DateText(2025, 12, 19), deadline_days |-> Days(45),
       min_gpa |-> 35, majors |-> {"STEM", "Engineering"},
       grade_levels |-> {"High School Senior", "College Freshman"},
       states |-> {"All"}, demographics |-> {}, interests |-> {"STEM Clubs"},
       special_circumstances |-> {}, category |-> "STEM"],
      [name |-> "First Generation Scholar Award", amount |-> Amount(10000),
       deadline |-> DateText(2025, 11, 30), deadline_days |-> Days(26),
       min_gpa |-> 30, majors |-> {"Any"},
       grade_levels |-> {"High School Senior"},
       states |-> {"All"}, demographics |-> {}, interests |-> {},
       special_circumstances |-> {"First Generation College Student"},
       category |-> "First Generation"],
      [name |-> "Women in Technology Grant", amount |-> Amount(7500),
       deadline |-> DateText(2026, 1, 31), deadline_days |-> Days(88),
       min_gpa |-> 32, majors |-> {"STEM", "Engineering"},
       grade_levels |-> {"College Sophomore", "College Junior", "College Senior"},
       states |-> {"All"}, demographics |-> {"Female"},
       interests |-> {"STEM Clubs", "Entrepreneurship"},
       special_circumstances |-> {}, category |-> "Women in STEM"]>>

\* save_scholarships: the file after it; when the file cannot be written the
\* exception is caught and the file is what it was
save_scholarships(data, file, writable) ==
    IF writable THEN JsonFile(data) ELSE file

\* mutant: the handler of the other except clause, sample data returned
ExceptException_SampleData(file) ==
    [scholarships |-> generate_sample_scholarships, file |-> file,
     status |-> "error"]

\* except Exception: return []
ExceptException(file) ==
    [scholarships |-> <<>>, file |-> file, status |-> "error"]

\* what load_scholarships returns, the file after it and the branch taken
load_scholarships(file, writable) ==
    CASE file.state = "json" ->
             [scholarships |-> file.data, file |-> file, status |-> "loaded"]
      [] file.state = "missing" ->
             [scholarships |-> generate_sample_scholarships,
              file |-> save_scholarships(generate_sample_scholarships, file, writable),
              status |-> "missing"]
      [] file.state = "not json" ->
             [scholarships |-> generate_sample_scholarships,
              file |-> save_scholarships(generate_sample_scholarships, file, writable),
              status |-> "JSONDecodeError"]
      [] OTHER -> ExceptException(file)

(***************************************************************************)
(* SpecLoad: the app loads the catalog, updates its deadlines and matches  *)
(* a profile against it                                                    *)
(***************************************************************************)
MaxFileCatalog == 2

ScholarshipFiles ==
    {MissingFile, NotJsonFile, UnreadableFile}
    \cup {JsonFile(c) : c \in UNION {[1..n -> CatalogPool] : n \in 0..MaxFileCatalog}}

InitLoad ==
    /\ user_profile \in MatchProfiles
    /\ scholarships = <<>>
    /\ min_match_threshold = DEFAULT_THRESHOLD
    /\ matches = <<>>
    /\ runs = 0
    /\ scholarship = OpenScholarship
    /\ score_result = NoResult
    /\ statistics = None
    /\ criteria = NoCriteria
    /\ filtered = <<>>
    /\ refiltered = <<>>
    /\ utcnow \in {Clock(0 - 40, 1), Clock(68, 1)}
    /\ failures = <<>>
    /\ scholarships_file \in ScholarshipFiles
    /\ load_status = "not loaded"
    /\ users_file = MissingFile
    /\ session = <<>>
    /\ saved = <<>>
    /\ pc = "start"

\* load_scholarship_data: load_scholarships, then update_scholarship_deadlines
LoadScholarshipData ==
    /\ pc = "start"
    /\ load_status = "not loaded"
    /\ \E writable \in BOOLEAN :
           LET loaded == load_scholarships(scholarships_file, writable)
           IN  /\ scholarships' = update_scholarship_deadlines(loaded.scholarships, utcnow)
               /\ scholarships_file' = loaded.file
               /\ load_status' = loaded.status
    /\ pc' = "loaded"
    /\ UNCHANGED <<user_profile, scorerVars, min_match_threshold, matches, runs,
                   listVars, utcnow, failures, users_file, session, saved>>

NextLoad == LoadScholarshipData \/ (load_status # "not loaded" /\ MatchScholarships)

SpecLoad == InitLoad /\ [][NextLoad]_vars

(***************************************************************************)
(* The users store (src/database.py): load_users and save_user_profile     *)
(***************************************************************************)
NumSessions == 3

Sessions == 1..NumSessions

\* how a write of the file can go: it succeeds, open() raises, or the
\* write raises after open() has truncated the file
WriteFaults == {"none", "open", "write"}

\* with open(filepath, 'w') as f: json.dump(data, f): the file after it
WriteFile(file, data, fault) ==
    CASE fault = "none" -> JsonFile(data)
      [] fault = "open" -> file
      [] OTHER -> NotJsonFile

\* load_users: the list it returns and the file after it; any exception,
\* a failed read included, is caught and [] is returned
load_users(file, readable, fault) ==
    CASE file.state = "missing" ->
             [users |-> <<>>, file |-> WriteFile(file, <<>>, fault)]
      [] file.state = "json" /\ readable ->
             [users |-> file.data, file |-> file]
      [] OTHER -> [users |-> <<>>, file |-> file]

\* lines 111-123 of save_user_profile: stamp the profile, append, write
WriteUsers(profile, users, file, now, fault) ==
    LET stamped == [name |-> profile.name, created_at |-> now,
                    id |-> Len(users) + 1]
    IN  [file |-> WriteFile(file, Append(users, stamped), fault),
         returned |-> fault = "none",
         profile |-> stamped]

save_user_profile(profile, file, now, readable, load_fault, fault) ==
    LET loaded == load_users(file, readable, load_fault)
    IN  WriteUsers(profile, loaded.users, loaded.file, now, fault)

\* what the store holds: the list a load_users call that succeeds returns
StoredUsers == load_users(users_file, TRUE, "none").users

IdleSession(s) ==
    [pc |-> "idle", profile |-> [name |-> s], users |-> <<>>, returned |-> FALSE]

(***************************************************************************)
(* SpecSave: the sessions submit their profiles one after another          *)
(***************************************************************************)
InitSave ==
    /\ user_profile \in MatchProfiles
    /\ scholarships = <<>>
    /\ min_match_threshold = DEFAULT_THRESHOLD
    /\ matches = <<>>
    /\ runs = 0
    /\ scholarship = OpenScholarship
    /\ score_result = NoResult
    /\ ListIdle
    /\ failures = <<>>
    /\ scholarships_file = MissingFile
    /\ load_status = "not loaded"
    /\ users_file \in {MissingFile, JsonFile(<<>>)}
    /\ session = [s \in Sessions |-> IdleSession(s)]
    /\ saved = <<>>
    /\ pc = "start"

\* one whole save_user_profile call of session s
SaveUserProfile(s) ==
    /\ session[s].pc = "idle"
    /\ \E readable \in BOOLEAN, load_fault \in WriteFaults, fault \in WriteFaults :
           LET call == save_user_profile(session[s].profile, users_file, utcnow,
                                         readable, load_fault, fault)
           IN  /\ users_file' = call.file
               /\ session' = [session EXCEPT ![s].pc = "done",
                                              ![s].profile = call.profile,
                                              ![s].returned = call.returned]
               /\ saved' = IF call.returned THEN Append(saved, s) ELSE saved
    /\ UNCHANGED <<user_profile, scorerVars, matcherVars, listVars, utcnow,
                   failures, scholarships_file, load_status, pc>>

NextSave == \E s \in Sessions : SaveUserProfile(s)

SpecSave == InitSave /\ [][NextSave]_vars

(***************************************************************************)
(* SpecInterleave: the sessions run save_user_profile at the same time;    *)
(* each call is two steps, the read in load_users and the write            *)
(***************************************************************************)
\* users = load_users(filepath) of session s
SessionLoadUsers(s) ==
    /\ session[s].pc = "idle"
    /\ LET loaded == load_users(users_file, TRUE, "none")
       IN  /\ users_file' = loaded.file
           /\ session' = [session EXCEPT ![s].pc = "loaded",
                                          ![s].users = loaded.users]
    /\ UNCHANGED <<user_profile, scorerVars, matcherVars, listVars, utcnow,
                   failures, scholarships_file, load_status, saved, pc>>

\* the rest of save_user_profile of session s, on the list it has read
SessionWriteUsers(s) ==
    /\ session[s].pc = "loaded"
    /\ LET call == WriteUsers(session[s].profile, session[s].users, users_file,
                              utcnow, "none")
       IN  /\ users_file' = call.file
           /\ session' = [session EXCEPT ![s].pc = "done",
                                          ![s].profile = call.profile,
                                          ![s].returned = call.returned]
           /\ saved' = Append(saved, s)
    /\ UNCHANGED <<user_profile, scorerVars, matcherVars, listVars, utcnow,
                   failures, scholarships_file, load_status, pc>>

NextInterleave ==
    \E s \in Sessions : SessionLoadUsers(s) \/ SessionWriteUsers(s)

SpecInterleave == InitSave /\ [][NextInterleave]_vars

(***************************************************************************)
(* Claims about the Scorer, checked under SpecScore                        *)
(***************************************************************************)
Scored == pc = "scored"

GpaFailReason      == [mark |-> "HARD FAIL", text |-> "GPA requirement not met"]
GradeFailReason    == [mark |-> "HARD FAIL", text |-> "Grade level not eligible"]
LocationFailReason == [mark |-> "HARD FAIL", text |-> "Location not eligible"]

\* the three hard-filter conditions as the specification words them
GpaBelowFloor ==
    scholarship.min_gpa > 0 /\ user_profile.gpa < scholarship.min_gpa
GradeExcluded ==
    /\ scholarship.grade_levels # {}
    /\ user_profile.grade_level \notin scholarship.grade_levels
StateExcluded ==
    /\ scholarship.states # {}
    /\ "All" \notin scholarship.states
    /\ user_profile.state \notin scholarship.states

HasHardFailReason ==
    \E i \in 1..Len(score_result.reasons) :
        score_result.reasons[i].mark = "HARD FAIL"

\* C1: a profile whose gpa is below a positive min_gpa gets score 0 and a
\* reason list of exactly one entry, the GPA hard failure, whatever the
\* other fields are.
C1_GpaHardFail ==
    (Scored /\ GpaBelowFloor)
        => /\ score_result.score = 0
           /\ Len(score_result.reasons) = 1
           /\ score_result.reasons[1] = GpaFailReason

C1_Witness ==
    /\ Scored
    /\ GpaBelowFloor
    /\ GradeExcluded
    /\ StateExcluded
    /\ score_result.reasons = <<GpaFailReason>>

\* C2: a scholarship whose non-empty grade_levels lacks the profile's grade
\* level scores exactly 0, whatever the GPA, major and state values are.
C2_GradeHardFail ==
    (Scored /\ GradeExcluded) => score_result.score = 0

C2_Witness ==
    /\ Scored
    /\ GradeExcluded
    /\ ~GpaBelowFloor
    /\ ~StateExcluded
    /\ user_profile.major \in scholarship.majors
    /\ score_result.score = 0

\* C3: once the GPA and grade filters pass, the state hard failure is
\* returned exactly when states is non-empty, lacks "All" and lacks the
\* profile's state; a state hard failure is never returned otherwise, and
\* with "All" in states such a profile scores above 0.
C3_StateHardFail ==
    Scored =>
        /\ (LocationFailReason \in {score_result.reasons[i] :
                                      i \in 1..Len(score_result.reasons)})
               <=> (~GpaBelowFloor /\ ~GradeExcluded /\ StateExcluded)
        /\ ("All" \in scholarship.states /\ ~GpaBelowFloor /\ ~GradeExcluded)
               => (score_result.score > 0 /\ ~HasHardFailReason)

C3_Witness ==
    /\ Scored
    /\ "All" \in scholarship.states
    /\ user_profile.state \notin scholarship.states
    /\ ~GpaBelowFloor
    /\ ~GradeExcluded
    /\ score_result.score > 0

\* C4: the hard filters run in the order GPA, grade level, state and the
\* first that fails decides: the reason list is then the single reason of
\* the earliest failing filter, and a hard-failure reason never stands
\* beside another reason.
C4_FirstFailureDecides ==
    Scored =>
        /\ GpaBelowFloor => score_result.reasons = <<GpaFailReason>>
        /\ (~GpaBelowFloor /\ GradeExcluded)
               => score_result.reasons = <<GradeFailReason>>
        /\ (~GpaBelowFloor /\ ~GradeExcluded /\ StateExcluded)
               => score_result.reasons = <<LocationFailReason>>
        /\ HasHardFailReason => Len(score_result.reasons) = 1

C4_Witness ==
    /\ Scored
    /\ ~GpaBelowFloor
    /\ GradeExcluded
    /\ StateExcluded
    /\ score_result.reasons = <<GradeFailReason>>

\* the weights of the seven factors, in table order
FactorWeights == <<20, 25, 20, 10, 10, 10, 5>>

PassesHardFilters == ~GpaBelowFloor /\ ~GradeExcluded /\ ~StateExcluded

EveryFactorFull ==
    /\ PassesHardFilters
    /\ \A i \in 1..Len(FactorWeights) :
           Factors(user_profile, scholarship)[i].score = FactorWeights[i]

\* C5: the score is an integer in 0..100, and it is 100 exactly when each
\* of the seven factors is awarded its full weight.
C5_ScoreRange ==
    Scored =>
        /\ score_result.score \in 0..100
        /\ score_result.score = 100 <=> EveryFactorFull

C5_Witness ==
    /\ Scored
    /\ score_result.score = 100
    /\ EveryFactorFull

ScenarioProfile ==
    [gpa                   |-> 37,
     grade_level           |-> "High School Senior",
     major                 |-> "STEM",
     state                 |-> "California",
     ethnicity             |-> {"Asian American"},
     gender                |-> "Female",
     interests             |-> {"STEM Clubs", "Community Service"},
     special_circumstances |-> {"First Generation College Student"}]

ScenarioScholarship ==
    [min_gpa               |-> 35,
     majors                |-> {"STEM"},
     grade_levels          |-> {"High School Senior"},
     states                |-> {"California", "New York"},
     demographics          |-> {"Female"},
     interests             |-> {"STEM Clubs"},
     special_circumstances |-> {"First Generation College Student"}]

InScenario ==
    /\ Scored
    /\ user_profile = ScenarioProfile
    /\ scholarship = ScenarioScholarship

\* C6 as stated: the scenario pair scores 100 with no hard-failure reason.
C6_ScenarioScores100 ==
    InScenario => (score_result.score = 100 /\ ~HasHardFailReason)

\* C6 as amended: the scenario pair scores 88 (20 + 25 + 20 + 10, 5 for the
\* gender match alone, 3 for the one matching interest, 5 for the special
\* circumstance) with no hard-failure reason.
C6_ScenarioScores88 ==
    InScenario => (score_result.score = 88 /\ ~HasHardFailReason)

C6_Witness == InScenario /\ score_result.score = 88

\* the per-factor awards of the specification's table
TableMajor ==
    IF \/ scholarship.majors = {}
       \/ "Any" \in scholarship.majors
       \/ user_profile.major \in scholarship.majors
    THEN 25 ELSE 0
TableDemographics ==
    IF scholarship.demographics = {} THEN 5
    ELSE (IF user_profile.ethnicity \cap scholarship.demographics # {}
          THEN 5 ELSE 0)
         + (IF /\ user_profile.gender \in scholarship.demographics
               /\ user_profile.gender # "Prefer not to say"
            THEN 5 ELSE 0)
TableInterests ==
    IF scholarship.interests = {} THEN 5
    ELSE LET k == Cardinality(user_profile.interests \cap scholarship.interests)
         IN  IF 3 * k <= 10 THEN 3 * k ELSE 10
TableSpecial ==
    IF scholarship.special_circumstances = {} THEN 2
    ELSE IF user_profile.special_circumstances
              \cap scholarship.special_circumstances # {}
         THEN 5 ELSE 0
TableAccumulated ==
    20 + TableMajor + 20 + 10 + TableDemographics + TableInterests + TableSpecial

\* C7: for a pair that passes the hard filters the score equals the sum of
\* the seven per-factor awards of the table, for every reachable sum.
C7_ScoreIsAccumulated ==
    (Scored /\ PassesHardFilters) => score_result.score = TableAccumulated

\* C8: for a pair that passes the hard filters the reason list has exactly
\* seven entries, one per factor; for a hard failure it has one.
C8_OneReasonPerFactor ==
    Scored =>
        IF PassesHardFilters
        THEN Len(score_result.reasons) = 7
        ELSE Len(score_result.reasons) = 1

(***************************************************************************)
(* Claims about the Matcher, checked under Spec                            *)
(***************************************************************************)
Matched == pc = "matched"

\* a scholarship the hard filters reject, in the specification's words
HardFailed(profile, s) ==
    \/ (s.min_gpa > 0 /\ profile.gpa < s.min_gpa)
    \/ (s.grade_levels # {} /\ profile.grade_level \notin s.grade_levels)
    \/ (s.states # {} /\ "All" \notin s.states /\ profile.state \notin s.states)

\* the catalog positions that must be returned
Qualifying ==
    {i \in 1..Len(scholarships) :
        /\ ~HardFailed(user_profile, scholarships[i])
        /\ calculate_match_score(user_profile, scholarships[i]).score
               >= min_match_threshold}

\* the scholarship a match was copied from
SourceOf(m) == [f \in DOMAIN m \ {"match_score", "match_reasons", "urgency"} |-> m[f]]

IsMatchOf(m, s) ==
    /\ SourceOf(m) = s
    /\ m.match_score = calculate_match_score(user_profile, s).score
    /\ m.match_reasons = calculate_match_score(user_profile, s).reasons

\* C9: the matches are exactly the catalog's scholarships that are no hard
\* failure and score at least the threshold, one match for each: some
\* one-to-one pairing of the returned list with the qualifying catalog
\* positions pairs every match with the scholarship it was made from.
C9_ExactlyQualifying ==
    Matched =>
        /\ Len(matches) = Cardinality(Qualifying)
        /\ \A s \in {scholarships[i] : i \in Qualifying} :
               Cardinality({j \in 1..Len(matches) : IsMatchOf(matches[j], s)})
                   = Cardinality({i \in Qualifying : scholarships[i] = s})
        /\ \A j \in 1..Len(matches) :
               /\ ~HardFailed(user_profile, SourceOf(matches[j]))
               /\ matches[j].match_score >= min_match_threshold

\* a run that drops a hard failure and a score of threshold - 1 and keeps a
\* score equal to the threshold
C9_Witness ==
    /\ Matched
    /\ Len(scholarships) = 3
    /\ Len(matches) = 1
    /\ matches[1].match_score = min_match_threshold
    /\ \E i \in 1..Len(scholarships) : HardFailed(user_profile, scholarships[i])
    /\ \E i \in 1..Len(scholarships) :
           /\ ~HardFailed(user_profile, scholarships[i])
           /\ calculate_match_score(user_profile, scholarships[i]).score
                  = min_match_threshold - 1

\* the amount a match is ranked by, and its deadline, as the claim gives them
RankAmount(m) ==
    IF m.amount.present /\ m.amount.numeric THEN m.amount.value ELSE 0
RankDays(m) ==
    IF m.deadline_days.present THEN m.deadline_days.value ELSE 999

InOrder(a, b) ==
    \/ a.match_score > b.match_score
    \/ (a.match_score = b.match_score /\ RankAmount(a) > RankAmount(b))
    \/ (/\ a.match_score = b.match_score
        /\ RankAmount(a) = RankAmount(b)
        /\ RankDays(a) <= RankDays(b))

\* C10: the returned list is in the order score descending, ranking amount
\* descending, deadline_days ascending, a non-numeric or missing amount
\* counting as 0 and a missing deadline_days as 999.
C10_Sorted ==
    Matched =>
        \A i \in 1..(Len(matches) - 1) : InOrder(matches[i], matches[i + 1])

\* a run whose catalog order was the reverse of the returned order, with a
\* tie on score broken by amount and a tie on both broken by the deadline
C10_Witness ==
    /\ Matched
    /\ Len(matches) = 3
    /\ \A i \in 1..3 : SourceOf(matches[i]) = scholarships[4 - i]
    /\ matches[1].match_score = matches[3].match_score
    /\ RankAmount(matches[1]) > RankAmount(matches[2])
    /\ RankAmount(matches[2]) = RankAmount(matches[3])
    /\ RankDays(matches[2]) < RankDays(matches[3])
    /\ ~amount_is_numeric(matches[3])

\* the entries of seq that are in the set S, in the order of seq
Restrict(seq, S) ==
    LET Test(x) == x \in S IN SelectSeq(seq, Test)

\* the scholarships the matches were copied from, in the returned order
Sources == [i \in 1..Len(matches) |-> SourceOf(matches[i])]

SameKey(a, b) ==
    /\ a.match_score = b.match_score
    /\ RankAmount(a) = RankAmount(b)
    /\ RankDays(a) = RankDays(b)

\* C11: two returned matches with equal score, equal ranking amount and
\* equal deadline_days stand in the result in the relative order their
\* scholarships have in the catalog: for every such pair the result and the
\* catalog, each cut down to the two scholarships, are the same sequence.
C11_TiesKeepCatalogOrder ==
    Matched =>
        \A i, j \in 1..Len(matches) :
            SameKey(matches[i], matches[j]) =>
                LET pair == {Sources[i], Sources[j]}
                IN  Restrict(Sources, pair) = Restrict(scholarships, pair)

\* a run that returns two different scholarships with equal keys around a
\* third one of the catalog that sorts before them
C11_Witness ==
    /\ Matched
    /\ Len(matches) = 3
    /\ SameKey(matches[2], matches[3])
    /\ Sources[2] # Sources[3]
    /\ Sources[2] = scholarships[1]
    /\ Sources[1] = scholarships[2]
    /\ Sources[3] = scholarships[3]

\* the profile has what the scholarship's field asks for
Satisfied(field) ==
    CASE field = "demographics" ->
             \/ user_profile.ethnicity \cap scholarship.demographics # {}
             \/ (/\ user_profile.gender \in scholarship.demographics
                 /\ user_profile.gender # "Prefer not to say")
      [] field = "interests" ->
             user_profile.interests \cap scholarship.interests # {}
      [] field = "special_circumstances" ->
             user_profile.special_circumstances
                 \cap scholarship.special_circumstances # {}

\* C23: for demographics, interests and special circumstances, the same
\* scholarship with the field left empty never scores more than it does
\* with the field set and satisfied by the profile.
C23_UnrestrictedNeverDominates ==
    Scored =>
        \A field \in {"demographics", "interests", "special_circumstances"} :
            (scholarship[field] # {} /\ Satisfied(field)) =>
                calculate_match_score(user_profile,
                                      [scholarship EXCEPT ![field] = {}]).score
                    <= score_result.score

\* C24: a scholarship that passes the three hard filters scores at least
\* 50; the score is 0 exactly when the reasons are a hard failure; and the
\* Matcher's tests with the default threshold keep every scholarship that
\* passed the hard filters.
C24_PassedScoresAtLeast50 ==
    Scored =>
        /\ PassesHardFilters => score_result.score >= 50
        /\ score_result.score = 0 <=> HasHardFailReason
        /\ PassesHardFilters =>
               (/\ ~IsHardFailure(score_result)
                /\ MeetsThreshold(score_result.score, DEFAULT_THRESHOLD))

\* a pair that passes the hard filters, the state filter by the "All"
\* sentinel, and earns nothing on the four other factors: score 50
C24_Witness ==
    /\ Scored
    /\ PassesHardFilters
    /\ scholarship.min_gpa > 0
    /\ "All" \in scholarship.states
    /\ score_result.score = 50

(***************************************************************************)
(* Claims about the Matcher's runs, checked under SpecPipeline             *)
(***************************************************************************)
\* C12: every returned match has the urgency its deadline_days gives:
\* under 7 critical, 7 to 29 high, 30 to 89 medium, 90 and more low, and
\* low when the scholarship has no deadline_days.
C12_UrgencyBreakpoints ==
    runs >= 1 =>
        \A i \in 1..Len(matches) :
            LET m == matches[i]
                d == m.deadline_days
            IN  /\ (d.present /\ d.value < 7) => m.urgency = "critical"
                /\ (d.present /\ d.value >= 7 /\ d.value <= 29) => m.urgency = "high"
                /\ (d.present /\ d.value >= 30 /\ d.value <= 89) => m.urgency = "medium"
                /\ (d.present /\ d.value >= 90) => m.urgency = "low"
                /\ ~d.present => m.urgency = "low"

\* a run that returns a deadline of 7 days tagged high and one of 6 days
\* tagged critical
C12_Witness ==
    /\ pc = "matched"
    /\ Len(matches) = 2
    /\ matches[1].deadline_days = Days(6) /\ matches[1].urgency = "critical"
    /\ matches[2].deadline_days = Days(7) /\ matches[2].urgency = "high"

C16_EmptyInput ==
    /\ (runs >= 1 /\ scholarships = <<>>) => matches = <<>>
    /\ (pc \in {"summarized", "filtered"} /\ statistics # None /\ matches = <<>>) =>
           /\ "raised" \notin DOMAIN statistics
           /\ statistics.total_matches = 0
           /\ statistics.total_potential_value = 0
           /\ statistics.average_match_score = 0
           /\ statistics.urgent_deadlines = 0
           /\ DOMAIN statistics.categories = {}
    /\ (pc = "filtered" /\ matches = <<>>) => filtered = <<>>

\* the empty catalog matched, its result summarised and then filtered by a
\* deadline range
C16_Witness ==
    /\ pc = "filtered"
    /\ scholarships = <<>>
    /\ runs >= 1
    /\ statistics = EmptyStatistics
    /\ criteria.deadline_range.given
    /\ filtered = <<>>

\* the matches tagged with one of the urgency classes, in the list's order
Tagged(classes) ==
    LET InClasses(m) == m.urgency \in classes IN SelectSeq(matches, InClasses)

\* C26: of a list match_scholarships returned, deadline_range week keeps
\* exactly the matches tagged critical, month exactly those tagged critical
\* or high, as many as the statistics count as urgent_deadlines, and
\* quarter exactly those tagged critical, high or medium.
C26_WindowsAgreeWithUrgency ==
    (pc = "filtered" /\ runs >= 1) =>
        /\ criteria = DeadlineRange("week") => filtered = Tagged({"critical"})
        /\ criteria = DeadlineRange("month") =>
               /\ filtered = Tagged({"critical", "high"})
               /\ statistics # None /\ matches # <<>> =>
                      Len(filtered) = statistics.urgent_deadlines
        /\ criteria = DeadlineRange("quarter") =>
               filtered = Tagged({"critical", "high", "medium"})

(***************************************************************************)
(* Claims about get_scholarship_statistics, checked under SpecStats        *)
(***************************************************************************)
Summarized == pc = "summarized"

\* C14: total_potential_value is the sum of the numeric amounts among the
\* first 10 entries of the list; no entry from position 11 on adds to it.
C14_TopTenEntriesOnly ==
    Summarized =>
        statistics.total_potential_value = SumSeq(NumericAmounts(Take(matches, 10)))

RECURSIVE SumCounts(_, _)
SumCounts(f, S) ==
    IF S = {} THEN 0
    ELSE LET c == CHOOSE x \in S : TRUE IN f[c] + SumCounts(f, S \ {c})

\* the category an entry is counted under, as the claim gives it
CountedUnder(m) == IF "category" \in DOMAIN m THEN m.category ELSE "General"

\* C15: for a list that is not empty, total_matches is its length,
\* average_match_score the mean of the scores rounded down, urgent_deadlines
\* the number of entries with deadline_days under 30 (none with a missing
\* deadline_days), and categories counts every entry once, an entry without
\* category under "General", so the counts add up to total_matches.
C15_Statistics ==
    (Summarized /\ matches # <<>>) =>
        LET n      == Len(matches)
            scores == [i \in 1..n |-> matches[i].match_score]
        IN  /\ statistics.total_matches = n
            /\ statistics.average_match_score = SumSeq(scores) \div n
            /\ statistics.urgent_deadlines =
                   Cardinality({i \in 1..n : /\ matches[i].deadline_days.present
                                             /\ matches[i].deadline_days.value < 30})
            /\ DOMAIN statistics.categories = {CountedUnder(matches[i]) : i \in 1..n}
            /\ \A c \in DOMAIN statistics.categories :
                   statistics.categories[c] =
                       Cardinality({i \in 1..n : CountedUnder(matches[i]) = c})
            /\ SumCounts(statistics.categories, DOMAIN statistics.categories) = n

\* the statistics of three matches whose mean score is no integer, one of
\* them without category, one without deadline_days and one due in 30 days
C15_Witness ==
    /\ Summarized
    /\ Len(matches) = 3
    /\ SumSeq([i \in 1..3 |-> matches[i].match_score]) % 3 # 0
    /\ \E i \in 1..3 : "category" \notin DOMAIN matches[i]
    /\ \E i \in 1..3 : ~matches[i].deadline_days.present
    /\ \E i \in 1..3 : matches[i].deadline_days = Days(30)
    /\ statistics.urgent_deadlines = 1
    /\ statistics.categories["General"] = 1

(***************************************************************************)
(* Claims about filter_scholarships, checked under SpecFilter              *)
(***************************************************************************)
\* C17: filtering a filtered list again with the same criteria returns it
\* unchanged, whatever the list and whichever criteria are given.
C17_FilterIdempotent ==
    pc = "refiltered" => refiltered = filtered

\* a list of three filtered by all four criteria down to one entry, and
\* filtered again
C17_Witness ==
    /\ pc = "refiltered"
    /\ Len(matches) = 3
    /\ Len(filtered) = 1
    /\ criteria.category.given /\ criteria.category.value # ""
    /\ criteria.min_amount.given
    /\ criteria.max_amount.given
    /\ criteria.deadline_range.given /\ criteria.deadline_range.value # ""

Filtered == pc \in {"filtered", "refiltered"}

\* a string criterion is present when it is given and not empty
Present(arg) == arg.given /\ arg.value # ""

\* the window of a deadline range, as the specification gives it
Window(deadline_range) ==
    IF deadline_range = "week" THEN 7
    ELSE IF deadline_range = "month" THEN 30
    ELSE IF deadline_range = "quarter" THEN 90
    ELSE 365

\* an entry that satisfies every criterion of c that is present
Satisfies(m, c) ==
    /\ Present(c.category) =>
           ("category" \in DOMAIN m /\ m.category = c.category.value)
    /\ c.min_amount.given =>
           (m.amount.present /\ m.amount.numeric
            /\ m.amount.value >= c.min_amount.value)
    /\ c.max_amount.given =>
           (m.amount.present /\ m.amount.numeric
            /\ m.amount.value <= c.max_amount.value)
    /\ Present(c.deadline_range) =>
           (m.deadline_days.present
            /\ m.deadline_days.value <= Window(c.deadline_range.value))

\* C18: a call of filter_scholarships leaves the list it was handed as it
\* was and returns, in the list's order, exactly the entries that satisfy
\* every criterion that is present: the category equal, the amount a number
\* not under min_amount (0 too), the amount a number not over max_amount,
\* deadline_days within the window; with no criterion, the whole list.
C18_PureConjunctive ==
    [][pc' = "filtered" =>
          LET Kept(m) == Satisfies(m, criteria)
          IN  /\ matches' = matches
              /\ filtered' = SelectSeq(matches, Kept)
              /\ criteria = NoCriteria => filtered' = matches]_vars

\* min_amount = 0 and a category: of three entries the one without a numeric
\* amount is dropped and the other two are returned in their order
C18_Witness ==
    /\ pc = "filtered"
    /\ criteria.min_amount = Some(0)
    /\ Present(criteria.category)
    /\ Len(matches) = 3
    /\ ~amount_is_numeric(matches[2])
    /\ filtered = <<matches[1], matches[3]>>
    /\ matches[1] # matches[3]

OnlyDeadlineRange(c) ==
    ~c.category.given /\ ~c.min_amount.given /\ ~c.max_amount.given

\* C19: a deadline_range that is not empty keeps the entries with
\* deadline_days up to 7 for week, 30 for month, 90 for quarter, 365 for year
\* and 365 for any other value, the bound included, and never an entry
\* without deadline_days; with no other criterion it keeps all of those.
C19_DeadlineWindows ==
    (Filtered /\ Present(criteria.deadline_range)) =>
        LET range  == criteria.deadline_range.value
            limit  == CASE range = "week"    -> 7
                        [] range = "month"   -> 30
                        [] range = "quarter" -> 90
                        [] range = "year"    -> 365
                        [] OTHER             -> 365
            Due(m) == m.deadline_days.present /\ m.deadline_days.value <= limit
        IN  /\ \A i \in 1..Len(filtered) : Due(filtered[i])
            /\ OnlyDeadlineRange(criteria) => filtered = SelectSeq(matches, Due)

\* an unknown range applied to deadlines of 365 and 366 days and to an entry
\* without deadline_days: only the first is kept
C19_Witness ==
    /\ pc = "filtered"
    /\ OnlyDeadlineRange(criteria)
    /\ criteria.deadline_range = Some("decade")
    /\ Len(matches) = 3
    /\ matches[1].deadline_days = Days(366)
    /\ matches[2].deadline_days = Days(365)
    /\ matches[3].deadline_days = NoDays
    /\ filtered = <<matches[2]>>

(***************************************************************************)
(* Claims about the deadlines, checked under SpecDeadline                  *)
(***************************************************************************)
\* the days from the clock's date to the deadline's date, not under 0; 999
\* for a string that is no date
CalendarDays(deadline_str, now) ==
    LET deadline == Strptime(deadline_str)
    IN  IF "raised" \in DOMAIN deadline THEN 999
        ELSE IF deadline.day > now.day THEN deadline.day - now.day ELSE 0

\* C20: after update_scholarship_deadlines every record with a deadline
\* has deadline_days = max(0, deadline date - current date) in calendar
\* days, whatever the time of day (1 for a deadline dated tomorrow, 0 for
\* today or earlier), and 999 when the deadline string is no valid date.
C20_CalendarDays ==
    pc = "updated" =>
        \A i \in 1..Len(scholarships) :
            "deadline" \in DOMAIN scholarships[i] =>
                scholarships[i].deadline_days
                    = Days(CalendarDays(scholarships[i].deadline, utcnow))

(***************************************************************************)
(* Claims about get_hard_filter_failures, checked under SpecDiagnose       *)
(***************************************************************************)
\* the catalog positions the hard filters reject
Rejected == {i \in 1..Len(scholarships) : HardFailed(user_profile, scholarships[i])}

\* the n-th smallest member of a set of numbers
RECURSIVE Nth(_, _)
Nth(S, n) ==
    LET least == CHOOSE x \in S : \A y \in S : x <= y
    IN  IF n = 1 THEN least ELSE Nth(S \ {least}, n - 1)

\* C25: with threshold 0, every scholarship of the catalog is either
\* listed by get_hard_filter_failures or returned by match_scholarships
\* and never both, so the two lengths add up to the catalog's; the failures
\* are the rejected scholarships in catalog order, each with the first
\* reason the Scorer gives.
C25_FailuresAndMatchesPartition ==
    pc = "diagnosed" =>
        /\ Len(failures) + Len(matches) = Len(scholarships)
        /\ Len(failures) = Cardinality(Rejected)
        /\ \A k \in 1..Len(failures) :
               LET s == scholarships[Nth(Rejected, k)]
               IN  /\ failures[k].scholarship = s.name
                   /\ failures[k].failure_reason
                          = calculate_match_score(user_profile, s).reasons[1]
        /\ \A i \in 1..Len(scholarships) :
               Cardinality({j \in 1..Len(matches) : Sources[j] = scholarships[i]})
                   = IF i \in Rejected THEN 0
                     ELSE Cardinality({k \in 1..Len(scholarships) :
                                          scholarships[k] = scholarships[i]})

\* a catalog of one scholarship that matches and one that fails
C25_Witness ==
    /\ pc = "diagnosed"
    /\ Len(scholarships) = 2
    /\ Len(failures) = 1
    /\ Len(matches) = 1
    /\ failures[1].scholarship = scholarships[1].name
    /\ Sources[1] = scholarships[2]

(***************************************************************************)
(* Claims about load_scholarships, checked under SpecLoad                  *)
(***************************************************************************)
Loaded == load_status # "not loaded"

\* C21 as stated: whenever load_scholarships fails, because the file is
\* missing, is no valid JSON or cannot be read, the catalog is empty and
\* the match_scholarships run after it returns no match.
C21_AnyFailureGivesEmptyCatalog ==
    (Loaded /\ load_status # "loaded") =>
        /\ scholarships = <<>>
        /\ Matched => matches = <<>>

\* C21 as amended: when the file cannot be opened or read the catalog is
\* empty and the run after it returns no match; when the file is missing or
\* is no valid JSON the catalog is the three sample scholarships, their
\* deadline_days recomputed.
C21_LoaderFailure ==
    Loaded =>
        /\ load_status = "error" =>
               /\ scholarships = <<>>
               /\ Matched => matches = <<>>
        /\ load_status \in {"missing", "JSONDecodeError"} =>
               /\ Len(scholarships) = 3
               /\ \A i \in 1..3 :
                      /\ scholarships[i].name = generate_sample_scholarships[i].name
                      /\ scholarships[i].deadline_days =
                             Days(calculate_deadline_days(scholarships[i].deadline, utcnow))

\* a file that cannot be read, loaded as the empty catalog and matched
C21_Witness ==
    /\ Matched
    /\ scholarships_file = UnreadableFile
    /\ load_status = "error"
    /\ scholarships = <<>>
    /\ matches = <<>>

(***************************************************************************)
(* Claims about the users store, checked under SpecSave                    *)
(***************************************************************************)
AllReturnedTrue ==
    \A s \in Sessions : session[s].pc = "done" => session[s].returned

\* C22: after n save_user_profile calls made one after another that all
\* returned True, the store holds the n profiles in save order with the
\* ids 1..n, also when a load_users call inside a save failed to read the
\* file.
C22_SequentialIds ==
    AllReturnedTrue =>
        /\ Len(StoredUsers) = Len(saved)
        /\ \A i \in 1..Len(saved) :
               /\ StoredUsers[i].name = saved[i]
               /\ StoredUsers[i].id = i

(***************************************************************************)
(* Claim about concurrent saves, checked under SpecInterleave              *)
(***************************************************************************)
\* C27: however the loads and writes of concurrent save_user_profile calls
\* interleave, the profile of every call that has returned is in the store
\* and no two stored profiles carry the same id.
C27_NoLostProfileNoDuplicateId ==
    /\ \A s \in Sessions :
           session[s].pc = "done" =>
               \E i \in 1..Len(StoredUsers) : StoredUsers[i].name = s
    /\ \A s, t \in Sessions :
           (s # t /\ session[s].pc = "done" /\ session[t].pc = "done") =>
               session[s].profile.id # session[t].profile.id

====
